---- MODULE Spec2Model ----
(***************************************************************************)
(* Signature lifecycle reconciliation of zapsign_api: the SignatureService *)
(* operations, the webhook endpoint, the ProviderFactory cache and the     *)
(* facade retry loop, modelled from the Python sources.                    *)
(***************************************************************************)
EXTENDS Integers, Sequences, FiniteSets, TLC

VARIABLES
    doc,        \* the persisted Document row together with its Signer rows
    calc,       \* one evaluation of _calculate_internal_status: its inputs and result
    retry,      \* one run of SignatureProviderFacade._retry_operation
    cache,      \* ProviderFactory._providers_cache: a dict, cache key -> strategy instance
    lock,       \* ProviderFactory._lock: the caller holding it, or NoCaller
    pc,         \* per get_provider caller: the statement it is at
    req,        \* per caller: the arguments of its call
    ret,        \* per caller: the instance returned
    made,       \* the strategy instances constructed so far, in order: their arguments
    facade,     \* one call of a SignatureProviderFacade method on behalf of a company
    analysis,   \* one operation that triggers the background analysis, and its thread
    wk,         \* per webhook worker: its position and its in-memory Document object
    promo       \* concurrent send_to_signature requests for one draft, and the provider

docVars == <<doc>>
calcVars == <<calc>>
retryVars == <<retry>>
factoryVars == <<cache, lock, pc, req, ret, made>>
facadeVars == <<facade>>
workerVars == <<analysis, wk, promo>>
vars == <<doc, calc, retry, cache, lock, pc, req, ret, made, facade, analysis, wk, promo>>

(***************************************************************************)
(* Bounds of the model.                                                    *)
(***************************************************************************)
MaxSigners == 2        \* signers per document
MaxRespSigners == 1    \* signer entries in one get_document_status response

(***************************************************************************)
(* Values.                                                                 *)
(***************************************************************************)
None == "None"              \* Python None / JSON null
Absent == "<absent>"        \* a key that is missing from a dict
NoToken == 0                \* Signer.token is NULL
AttributeError == "AttributeError"   \* None.lower() raised

Terminal == {"signed", "cancelled", "rejected", "expired"}
SignerStatuses == {"pending", "in_progress", "signed", "rejected", "cancelled"}
\* Document.STATUS_CHOICES
STATUS_CHOICES ==
    {"draft", "pending", "in_progress", "signed", "cancelled", "rejected", "expired"}

Emails == {"a@x", "b@x"}
\* the e-mail address of the i-th signer of a request
EmailOf(i) == IF i = 1 THEN "a@x" ELSE "b@x"

\* str.lower() on the strings the model feeds to the two mappings
lower(s) ==
    CASE s = "SIGNED" -> "signed"
      [] s = "Cancelled" -> "cancelled"
      [] s = "NEW" -> "new"
      [] s = "Link-Opened" -> "link-opened"
      [] OTHER -> s

\* ZapSignStrategy.to_internal_status
to_internal_status(provider_status) ==
    IF provider_status = None THEN AttributeError
    ELSE LET s == lower(provider_status) IN
         IF s \in {"pending", "signed", "cancelled", "rejected", "expired"} THEN s
         ELSE "pending"

\* SignatureService._map_signer_status
_map_signer_status(provider_status) ==
    IF provider_status = None THEN AttributeError
    ELSE LET s == lower(provider_status) IN
         CASE s = "new" -> "pending"
           [] s = "link-opened" -> "in_progress"
           [] s = "signed" -> "signed"
           [] s = "refused" -> "rejected"
           [] s = "cancelled" -> "cancelled"
           [] OTHER -> "pending"

\* a variant that looks at the first row only
first_signed(signers) == signers = <<>> \/ Head(signers).status = "signed"

\* all(s.status == 'signed' for s in signers), evaluated in iteration order
RECURSIVE all_signed(_)
all_signed(signers) ==
    IF signers = <<>> THEN TRUE
    ELSE IF Head(signers).status # "signed" THEN FALSE
    ELSE all_signed(Tail(signers))

\* sum(1 for s in signers if s.status == 'signed'), in iteration order
RECURSIVE signed_count(_)
signed_count(signers) ==
    IF signers = <<>> THEN 0
    ELSE (IF Head(signers).status = "signed" THEN 1 ELSE 0) + signed_count(Tail(signers))

\* a variant of the rule that asks for any signed signer where the code asks for all
_calculate_internal_status_any(signers, provider_status) ==
    IF provider_status \in {"cancelled", "rejected", "expired"} THEN provider_status
    ELSE IF provider_status = "signed"
         THEN (IF signed_count(signers) > 0 THEN "signed" ELSE "in_progress")
    ELSE IF signed_count(signers) > 0 /\ signed_count(signers) < Len(signers)
         THEN "in_progress"
    ELSE to_internal_status(provider_status)

\* SignatureService._calculate_internal_status, on the signer rows of the document
_calculate_internal_status(signers, provider_status) ==
    IF provider_status \in {"cancelled", "rejected", "expired"} THEN provider_status
    ELSE IF provider_status = "signed"
         THEN (IF all_signed(signers) THEN "signed" ELSE "in_progress")
    ELSE IF signed_count(signers) > 0 /\ signed_count(signers) < Len(signers)
         THEN "in_progress"
    ELSE to_internal_status(provider_status)

(***************************************************************************)
(* The Document row and its Signer rows.                                   *)
(***************************************************************************)
NoDoc ==
    [created |-> FALSE, token |-> None, open_id |-> None, provider_status |-> None,
     internal_status |-> "draft", signers |-> <<>>]

\* a variant for which every token counts as present
always_truthy(s) == TRUE

truthy(s) == s # None /\ s # "" /\ s # Absent

\* a variant of the bulk update whose filter names 'pending' only
force_signed_pending_only(signers) ==
    [i \in 1..Len(signers) |->
        IF signers[i].status = "pending"
        THEN [signers[i] EXCEPT !.status = "signed"]
        ELSE signers[i]]

\* signers.filter(status__in=['pending', 'in_progress']).update(status='signed')
force_signed(signers) ==
    [i \in 1..Len(signers) |->
        IF signers[i].status \in {"pending", "in_progress"}
        THEN [signers[i] EXCEPT !.status = "signed"]
        ELSE signers[i]]

\* document.signers.get(token=t): the indices of the matching rows
by_token(signers, t) == {i \in 1..Len(signers) : signers[i].token = t}
by_email(signers, e) == {i \in 1..Len(signers) : signers[i].email = e}

(***************************************************************************)
(* SignatureService.update_document_status (refresh).  `out` is what the   *)
(* facade call produced: a response dict, an exception whose text carries  *)
(* "404"/"not found", or any other exception.  Signer rows are saved one   *)
(* by one inside the loop, the Document row only by the final save().      *)
(***************************************************************************)
RECURSIVE apply_signer_entries(_, _)
apply_signer_entries(signers, entries) ==
    IF entries = <<>> THEN [signers |-> signers, raised |-> FALSE]
    ELSE LET e == Head(entries)
             m == by_token(signers, e.token)
         IN  IF e.token = NoToken \/ m = {}
             THEN apply_signer_entries(signers, Tail(entries))
             ELSE IF Cardinality(m) > 1
             THEN [signers |-> signers, raised |-> TRUE]
             ELSE LET i == CHOOSE j \in m : TRUE
                      st == _map_signer_status(
                                IF e.status = Absent THEN signers[i].status ELSE e.status)
                  IN  IF st = AttributeError
                      THEN [signers |-> signers, raised |-> TRUE]
                      ELSE apply_signer_entries(
                               [signers EXCEPT ![i].status = st], Tail(entries))

\* a variant without the test of the response for 'not_found'
update_document_status_untested(d, out) ==
    IF ~truthy(d.token) THEN [doc |-> d, result |-> "ValueError"]
    ELSE IF out.kind = "not_found_exc" THEN [doc |-> d, result |-> "unchanged"]
    ELSE IF out.kind = "error" THEN [doc |-> d, result |-> "raised"]
    ELSE LET ps == IF out.status = Absent THEN d.provider_status ELSE out.status
             a == apply_signer_entries(d.signers, out.signers)
             forced == IF ps = "signed" THEN force_signed(a.signers) ELSE a.signers
             is == _calculate_internal_status(forced, ps)
         IN  IF a.raised
             THEN [doc |-> [d EXCEPT !.signers = a.signers], result |-> "raised"]
             ELSE IF is = AttributeError
             THEN [doc |-> [d EXCEPT !.signers = forced], result |-> "raised"]
             ELSE [doc |-> [d EXCEPT !.provider_status = ps,
                                     !.internal_status = is,
                                     !.signers = forced],
                   result |-> "saved"]

update_document_status(d, out) ==
    IF ~truthy(d.token) THEN [doc |-> d, result |-> "ValueError"]
    ELSE IF out.kind = "not_found_exc" THEN [doc |-> d, result |-> "unchanged"]
    ELSE IF out.kind = "error" THEN [doc |-> d, result |-> "raised"]
    ELSE IF out.status = "not_found" THEN [doc |-> d, result |-> "unchanged"]
    ELSE LET ps == IF out.status = Absent THEN d.provider_status ELSE out.status
             a == apply_signer_entries(d.signers, out.signers)
             forced == IF ps = "signed" THEN force_signed(a.signers) ELSE a.signers
             is == _calculate_internal_status(forced, ps)
         IN  IF a.raised
             THEN [doc |-> [d EXCEPT !.signers = a.signers], result |-> "raised"]
             ELSE IF is = AttributeError
             THEN [doc |-> [d EXCEPT !.signers = forced], result |-> "raised"]
             ELSE [doc |-> [d EXCEPT !.provider_status = ps,
                                     !.internal_status = is,
                                     !.signers = forced],
                   result |-> "saved"]

(***************************************************************************)
(* The webhook endpoint: webhook_handler and _process_webhook_event.       *)
(***************************************************************************)
_process_webhook_event(d, event_type, payload) ==
    CASE event_type = "doc_signed" ->
            [doc |-> [d EXCEPT !.provider_status = "signed", !.internal_status = "signed"],
             raised |-> FALSE]
      [] event_type = "signer_signed" ->
            LET m == by_token(d.signers, payload.signer) IN
            IF payload.signer = NoToken \/ m = {} THEN [doc |-> d, raised |-> FALSE]
            ELSE IF Cardinality(m) > 1 THEN [doc |-> d, raised |-> TRUE]
            ELSE LET i == CHOOSE j \in m : TRUE
                     signers == [d.signers EXCEPT ![i].status = "signed"]
                 IN  IF all_signed(signers)
                     THEN [doc |-> [d EXCEPT !.signers = signers,
                                             !.provider_status = "signed",
                                             !.internal_status = "signed"],
                           raised |-> FALSE]
                     ELSE [doc |-> [d EXCEPT !.signers = signers,
                                             !.internal_status = "in_progress"],
                           raised |-> FALSE]
      [] event_type = "signer_authentication_failed" ->
            LET m == by_token(d.signers, payload.unauthenticated_signer) IN
            IF payload.unauthenticated_signer = NoToken \/ m = {}
            THEN [doc |-> d, raised |-> FALSE]
            ELSE IF Cardinality(m) > 1 THEN [doc |-> d, raised |-> TRUE]
            ELSE LET i == CHOOSE j \in m : TRUE
                 IN  [doc |-> [d EXCEPT !.signers[i].status = "rejected"], raised |-> FALSE]
      [] event_type = "email_bounce" ->
            LET m == by_email(d.signers, payload.email) IN
            IF payload.email = Absent \/ m = {} THEN [doc |-> d, raised |-> FALSE]
            ELSE IF Cardinality(m) > 1 THEN [doc |-> d, raised |-> TRUE]
            ELSE LET i == CHOOSE j \in m : TRUE
                 IN  [doc |-> [d EXCEPT !.signers[i].status = "rejected"], raised |-> FALSE]
      [] OTHER -> [doc |-> d, raised |-> FALSE]

\* a variant that accepts every provider code
any_provider(provider_code) == TRUE

\* ProviderFactory._create_strategy: the provider codes it accepts
known_provider(provider_code) == lower(provider_code) = "zapsign"

\* a variant that lets an exception of the processing reach the framework
webhook_handler_unguarded(d, provider_code, payload) ==
    IF ~truthy(payload.token)
    THEN [doc |-> d, result |-> "no_token", http |-> 200]
    ELSE IF ~(d.created /\ d.token = payload.token)
    THEN [doc |-> d, result |-> "no_document", http |-> 200]
    ELSE IF ~known_provider(provider_code)
    THEN [doc |-> d, result |-> "exception", http |-> 500]
    ELSE LET r == _process_webhook_event(d, payload.event, payload) IN
         IF r.raised THEN [doc |-> r.doc, result |-> "exception", http |-> 500]
         ELSE [doc |-> r.doc, result |-> "processed", http |-> 200]

webhook_handler(d, provider_code, payload) ==
    IF ~truthy(payload.token)
    THEN [doc |-> d, result |-> "no_token", http |-> 200]
    ELSE IF ~(d.created /\ d.token = payload.token)
    THEN [doc |-> d, result |-> "no_document", http |-> 200]
    ELSE IF ~known_provider(provider_code)
    THEN [doc |-> d, result |-> "exception", http |-> 200]
    ELSE LET r == _process_webhook_event(d, payload.event, payload) IN
         IF r.raised THEN [doc |-> r.doc, result |-> "exception", http |-> 200]
         ELSE [doc |-> r.doc, result |-> "processed", http |-> 200]

(***************************************************************************)
(* SignatureService.cancel_document / add_signer_to_document.              *)
(***************************************************************************)
\* a variant that records the cancellation in provider_status alone
cancel_document_provider_only(d, out) ==
    IF ~truthy(d.token) THEN [doc |-> d, result |-> "ValueError"]
    ELSE IF out.kind = "error" THEN [doc |-> d, result |-> "raised"]
    ELSE [doc |-> [d EXCEPT !.provider_status = "cancelled"], result |-> "saved"]

cancel_document(d, out) ==
    IF ~truthy(d.token) THEN [doc |-> d, result |-> "ValueError"]
    ELSE IF out.kind = "error" THEN [doc |-> d, result |-> "raised"]
    ELSE [doc |-> [d EXCEPT !.provider_status = "cancelled", !.internal_status = "cancelled"],
          result |-> "saved"]

add_signer_to_document(d, signer_data, out) ==
    IF ~truthy(d.token) THEN [doc |-> d, result |-> "ValueError"]
    ELSE IF out.kind = "error" THEN [doc |-> d, result |-> "raised"]
    ELSE LET st == _map_signer_status(IF out.status = Absent THEN "pending" ELSE out.status)
         IN  IF st = AttributeError THEN [doc |-> d, result |-> "raised"]
             ELSE [doc |-> [d EXCEPT !.signers = Append(@,
                               [token |-> out.token, email |-> signer_data.email, status |-> st])],
                   result |-> "saved"]

(***************************************************************************)
(* SignatureService.create_document / send_draft_to_signature.             *)
(***************************************************************************)
\* Signer.objects.create(...) for each entry of the provider response, in order
RECURSIVE create_signers(_, _)
create_signers(signers, entries) ==
    IF entries = <<>> THEN [signers |-> signers, raised |-> FALSE]
    ELSE LET e == Head(entries)
             st == _map_signer_status(IF e.status = Absent THEN "pending" ELSE e.status)
         IN  IF st = AttributeError THEN [signers |-> signers, raised |-> TRUE]
             ELSE create_signers(
                      Append(signers, [token |-> e.token, email |-> e.email, status |-> st]),
                      Tail(entries))

\* a variant that sends every document to the provider, drafts included
create_document_sent(save_as_draft, signers_data, out) ==
    IF out.kind = "error" THEN [doc |-> NoDoc, result |-> "raised", provider_calls |-> 1]
    ELSE LET is == to_internal_status(IF out.status = Absent THEN "pending" ELSE out.status)
             c == create_signers(<<>>, out.signers)
         IN  IF is = AttributeError
             THEN [doc |-> NoDoc, result |-> "raised", provider_calls |-> 1]
             ELSE [doc |-> [created |-> TRUE,
                            token |-> IF out.token = Absent THEN "" ELSE out.token,
                            open_id |-> IF out.open_id = Absent THEN "" ELSE out.open_id,
                            provider_status |-> IF out.status = Absent THEN "" ELSE out.status,
                            internal_status |-> is,
                            signers |-> c.signers],
                   result |-> IF c.raised THEN "raised" ELSE "saved",
                   provider_calls |-> 1]

create_document(save_as_draft, signers_data, out) ==
    IF save_as_draft
    THEN [doc |-> [created |-> TRUE, token |-> None, open_id |-> None,
                   provider_status |-> None, internal_status |-> "draft",
                   signers |-> [i \in 1..Len(signers_data) |->
                                  [token |-> NoToken, email |-> signers_data[i].email,
                                   status |-> "pending"]]],
          result |-> "saved", provider_calls |-> 0]
    ELSE IF out.kind = "error" THEN [doc |-> NoDoc, result |-> "raised", provider_calls |-> 1]
    ELSE LET is == to_internal_status(IF out.status = Absent THEN "pending" ELSE out.status)
             c == create_signers(<<>>, out.signers)
         IN  IF is = AttributeError
             THEN [doc |-> NoDoc, result |-> "raised", provider_calls |-> 1]
             ELSE [doc |-> [created |-> TRUE,
                            token |-> IF out.token = Absent THEN "" ELSE out.token,
                            open_id |-> IF out.open_id = Absent THEN "" ELSE out.open_id,
                            provider_status |-> IF out.status = Absent THEN "" ELSE out.status,
                            internal_status |-> is,
                            signers |-> c.signers],
                   result |-> IF c.raised THEN "raised" ELSE "saved",
                   provider_calls |-> 1]

\* a variant that creates a row for every entry of the response
update_signers_created(signers, entries, i) == create_signers(signers, entries)

\* the loop over enumerate(signers_response): rows beyond the response keep their values
RECURSIVE update_signers(_, _, _)
update_signers(signers, entries, i) ==
    IF i > Len(entries) THEN [signers |-> signers, raised |-> FALSE]
    ELSE IF i > Len(signers) THEN update_signers(signers, entries, i + 1)
    ELSE LET e == entries[i]
             st == _map_signer_status(IF e.status = Absent THEN "pending" ELSE e.status)
         IN  IF st = AttributeError THEN [signers |-> signers, raised |-> TRUE]
             ELSE update_signers(
                      [signers EXCEPT ![i].token = e.token, ![i].status = st],
                      entries, i + 1)

\* a variant without the test for a draft
send_draft_to_signature_unguarded(d, out) ==
    IF truthy(d.token) THEN [doc |-> d, result |-> "returned", provider_calls |-> 0]
    ELSE IF out.kind = "error" THEN [doc |-> d, result |-> "raised", provider_calls |-> 1]
    ELSE LET is == to_internal_status(IF out.status = Absent THEN "pending" ELSE out.status)
             u == update_signers(d.signers, out.signers, 1)
         IN  IF is = AttributeError
             THEN [doc |-> d, result |-> "raised", provider_calls |-> 1]
             ELSE IF u.raised
             THEN [doc |-> [d EXCEPT !.signers = u.signers], result |-> "raised",
                   provider_calls |-> 1]
             ELSE [doc |-> [d EXCEPT !.token = IF out.token = Absent THEN "" ELSE out.token,
                                     !.open_id = IF out.open_id = Absent THEN "" ELSE out.open_id,
                                     !.provider_status =
                                         IF out.status = Absent THEN "" ELSE out.status,
                                     !.internal_status = is,
                                     !.signers = u.signers],
                   result |-> "saved", provider_calls |-> 1]

send_draft_to_signature(d, out) ==
    IF d.internal_status # "draft"
    THEN [doc |-> d, result |-> "ValueError", provider_calls |-> 0]
    ELSE IF truthy(d.token) THEN [doc |-> d, result |-> "returned", provider_calls |-> 0]
    ELSE IF out.kind = "error" THEN [doc |-> d, result |-> "raised", provider_calls |-> 1]
    ELSE LET is == to_internal_status(IF out.status = Absent THEN "pending" ELSE out.status)
             u == update_signers(d.signers, out.signers, 1)
         IN  IF is = AttributeError
             THEN [doc |-> d, result |-> "raised", provider_calls |-> 1]
             ELSE IF u.raised
             THEN [doc |-> [d EXCEPT !.signers = u.signers], result |-> "raised",
                   provider_calls |-> 1]
             ELSE [doc |-> [d EXCEPT !.token = IF out.token = Absent THEN "" ELSE out.token,
                                     !.open_id = IF out.open_id = Absent THEN "" ELSE out.open_id,
                                     !.provider_status =
                                         IF out.status = Absent THEN "" ELSE out.status,
                                     !.internal_status = is,
                                     !.signers = u.signers],
                   result |-> "saved", provider_calls |-> 1]

(***************************************************************************)
(* What the provider and the callers can send.                             *)
(***************************************************************************)
\* document status strings of provider responses (None: JSON null)
RespDocStatuses ==
    {"pending", "signed", "cancelled", "rejected", "expired", "not_found", None, Absent}
\* signer status strings of provider responses (None: JSON null)
RespSignerStatuses == {"new", "link-opened", "signed", "refused", None, Absent}

SeqsUpTo(S, n) == UNION {[1..k -> S] : k \in 0..n}

\* get_document_status for a document with n signers: a signer entry carries the
\* token of one of them, a token no signer has (MaxSigners + 1) or none
StatusEntries(n) ==
    [token : 1..n, status : RespSignerStatuses]
    \cup [token : {NoToken, MaxSigners + 1}, status : {"signed"}]
\* the provider lists each signer at most once, in the order it issued the tokens
StatusSignerLists(n) ==
    {l \in SeqsUpTo(StatusEntries(n), MaxRespSigners) :
        \A i \in 1..(Len(l) - 1) : l[i].token < l[i + 1].token}
\* what the facade call produces for document d: no call is made without a token
StatusOutcomes(d) ==
    [kind : {"not_found_exc", "error"}, status : {Absent}, signers : {<<>>}]
    \cup [kind : {"response"}, status : {"not_found"}, signers : {<<>>}]
    \cup (IF truthy(d.token)
          THEN [kind : {"response"}, status : RespDocStatuses \ {"not_found"},
                signers : StatusSignerLists(Len(d.signers))]
          ELSE {})

\* create_document: the provider issues signer tokens 1, 2, ... in order
CreateEntries(k) ==
    {[i \in 1..k |-> [token |-> i, email |-> EmailOf(i), status |-> st[i]]] :
        st \in [1..k -> RespSignerStatuses]}
CreateOutcomes ==
    [kind : {"error"}, token : {Absent}, open_id : {Absent}, status : {Absent},
     signers : {<<>>}]
    \cup [kind : {"response"}, token : {"tok"}, open_id : {"oid"},
          status : RespDocStatuses \ {"not_found"},
          signers : UNION {CreateEntries(k) : k \in 0..MaxSigners}]
    \cup [kind : {"response"}, token : {Absent}, open_id : {Absent},
          status : {"pending", Absent}, signers : {<<>>}]

SignersData == {[i \in 1..k |-> [email |-> EmailOf(i)]] : k \in 0..MaxSigners}

CallOutcomes == [kind : {"response", "error"}]
AddSignerOutcomes(d) ==
    [kind : {"error"}, token : {NoToken}, status : {Absent}]
    \cup [kind : {"response"}, token : {Len(d.signers) + 1}, status : RespSignerStatuses]

\* webhook deliveries
Payloads ==
    [token : {"tok", "other", Absent}, event : {"doc_created", "doc_signed", "unknown"},
     signer : {NoToken}, unauthenticated_signer : {NoToken}, email : {Absent}]
    \cup [token : {"tok"}, event : {"signer_signed"}, signer : 0..(MaxSigners + 1),
          unauthenticated_signer : {NoToken}, email : {Absent}]
    \cup [token : {"tok"}, event : {"signer_authentication_failed"}, signer : {NoToken},
          unauthenticated_signer : 0..(MaxSigners + 1), email : {Absent}]
    \cup [token : {"tok"}, event : {"signer_authentication_failed"},
          signer : 1..(MaxSigners + 1),
          unauthenticated_signer : {NoToken}, email : {Absent}]
    \cup [token : {"tok"}, event : {"email_bounce"}, signer : {NoToken},
          unauthenticated_signer : {NoToken}, email : Emails \cup {"zz@x", Absent}]
ProviderCodes == {"zapsign", "docusign"}

(***************************************************************************)
(* The requests, one action per entry point.                               *)
(***************************************************************************)
DocInit == doc = NoDoc

\* POST documents/ -> SignatureService.create_document
CreateDocument ==
    /\ ~doc.created
    /\ \E save_as_draft \in BOOLEAN :
       \E signers_data \in (IF save_as_draft THEN SignersData ELSE {<<>>}),
          out \in (IF save_as_draft
                   THEN {CHOOSE o \in CreateOutcomes : o.kind = "error"}
                   ELSE CreateOutcomes) :
          /\ doc' = create_document(save_as_draft, signers_data, out).doc
          /\ UNCHANGED <<calcVars, retryVars, factoryVars, facadeVars, workerVars>>

\* POST documents/{id}/send_to_signature
SendToSignature ==
    /\ doc.created
    /\ \E out \in (IF doc.internal_status = "draft" /\ ~truthy(doc.token)
                    THEN CreateOutcomes
                    ELSE {CHOOSE o \in CreateOutcomes : o.kind = "error"}) :
          /\ doc' = send_draft_to_signature(doc, out).doc
          /\ UNCHANGED <<calcVars, retryVars, factoryVars, facadeVars, workerVars>>

\* POST documents/{id}/refresh_status
RefreshStatus ==
    /\ doc.created
    /\ \E out \in StatusOutcomes(doc) :
          /\ doc' = update_document_status(doc, out).doc
          /\ UNCHANGED <<calcVars, retryVars, factoryVars, facadeVars, workerVars>>

\* POST documents/{id}/cancel
Cancel ==
    /\ doc.created
    /\ \E out \in CallOutcomes :
          /\ doc' = cancel_document(doc, out).doc
          /\ UNCHANGED <<calcVars, retryVars, factoryVars, facadeVars, workerVars>>

\* POST documents/{id}/add_signer
AddSigner ==
    /\ doc.created
    /\ Len(doc.signers) < MaxSigners
    /\ \E out \in AddSignerOutcomes(doc) :
          /\ doc' = add_signer_to_document(
                        doc, [email |-> EmailOf(Len(doc.signers) + 1)], out).doc
          /\ UNCHANGED <<calcVars, retryVars, factoryVars, facadeVars, workerVars>>

\* POST webhooks/{provider_code}
Webhook ==
    \E provider_code \in ProviderCodes, payload \in Payloads :
        /\ doc' = webhook_handler(doc, provider_code, payload).doc
        /\ UNCHANGED <<calcVars, retryVars, factoryVars, facadeVars, workerVars>>

DocNext ==
    \/ CreateDocument
    \/ SendToSignature
    \/ RefreshStatus
    \/ Cancel
    \/ AddSigner
    \/ Webhook

(***************************************************************************)
(* _calculate_internal_status as a function of its inputs: the inputs are  *)
(* drawn at the start, Calculate evaluates it over the rows in the order   *)
(* the query returns them, Reiterate evaluates it again over another order.*)
(***************************************************************************)
CalcStatuses ==
    {"pending", "signed", "cancelled", "rejected", "expired", "SIGNED", "Cancelled",
     "in_progress", "", None}
CalcInputs ==
    [phase : {"input"}, provider_status : CalcStatuses,
     signers : SeqsUpTo([status : SignerStatuses], MaxSigners), result : {"-"}]
CalcIdle == calc = [phase |-> "idle", provider_status |-> None, signers |-> <<>>, result |-> "-"]

Reordered(signers, p) == [i \in 1..Len(signers) |-> signers[p[i]]]

CalcInit == calc \in CalcInputs

Calculate ==
    /\ calc.phase = "input"
    /\ calc' = [calc EXCEPT !.phase = "done",
                            !.result = _calculate_internal_status(calc.signers,
                                                                  calc.provider_status)]
    /\ UNCHANGED <<docVars, retryVars, factoryVars, facadeVars, workerVars>>

Reiterate ==
    /\ calc.phase = "done"
    /\ \E p \in Permutations(1..Len(calc.signers)) :
          LET rows == Reordered(calc.signers, p) IN
          calc' = [calc EXCEPT !.signers = rows,
                               !.result = _calculate_internal_status(rows,
                                                                     calc.provider_status)]
    /\ UNCHANGED <<docVars, retryVars, factoryVars, facadeVars, workerVars>>

CalcNext == Calculate \/ Reiterate

(***************************************************************************)
(* SignatureProviderFacade._retry_operation, statement by statement: the   *)
(* for header, the attempt, the sleep.  The operation fails or succeeds    *)
(* freely at each attempt; call k produces result k or exception k.        *)
(***************************************************************************)
MaxRetriesBound == 4      \* largest max_retries a tenant configures
MaxDelay == 2             \* largest delay a tenant configures
DefaultMaxRetries == 3
DefaultDelay == 1

\* Company.provider_config['retry_policy']: any subset of the two keys
RetryPolicies ==
    [max_retries : (-1)..MaxRetriesBound, delay : 0..MaxDelay]
    \cup [max_retries : (-1)..MaxRetriesBound]
    \cup [delay : 0..MaxDelay]
    \cup {<<>>}

\* dict.get(key, default)
dict_get(dict, key, default) == IF key \in DOMAIN dict THEN dict[key] ELSE default

RetryIdle ==
    retry = [pc |-> "idle", max_retries |-> 0, delay |-> 0, attempt |-> 0, calls |-> 0,
             sleeps |-> <<>>, outcome |-> "-", of_call |-> 0]

\* lines 19-21: the policy is read
RetryStart ==
    /\ retry.pc = "idle"
    /\ \E retry_config \in RetryPolicies :
          retry' = [retry EXCEPT
                      !.pc = "for",
                      !.max_retries = dict_get(retry_config, "max_retries", DefaultMaxRetries),
                      !.delay = dict_get(retry_config, "delay", DefaultDelay)]
    /\ UNCHANGED <<docVars, calcVars, factoryVars, facadeVars, workerVars>>

\* line 23: for attempt in range(max_retries); falling off the loop returns None
in_range(attempt, max_retries) == attempt < max_retries

RetryFor ==
    /\ retry.pc = "for"
    /\ IF in_range(retry.attempt, retry.max_retries)
       THEN retry' = [retry EXCEPT !.pc = "try"]
       ELSE retry' = [retry EXCEPT !.pc = "returned", !.outcome = "None"]
    /\ UNCHANGED <<docVars, calcVars, factoryVars, facadeVars, workerVars>>

\* line 27: the attempt after which the exception is re-raised
is_last_attempt(attempt, max_retries) == attempt = max_retries - 1

\* lines 24-28: one attempt
RetryAttempt ==
    /\ retry.pc = "try"
    /\ \E succeeds \in BOOLEAN :
          IF succeeds
          THEN retry' = [retry EXCEPT !.pc = "returned", !.calls = @ + 1,
                                      !.outcome = "result", !.of_call = retry.calls + 1]
          ELSE IF is_last_attempt(retry.attempt, retry.max_retries)
          THEN retry' = [retry EXCEPT !.pc = "raised", !.calls = @ + 1,
                                      !.outcome = "exception", !.of_call = retry.calls + 1]
          ELSE retry' = [retry EXCEPT !.pc = "sleep", !.calls = @ + 1]
    /\ UNCHANGED <<docVars, calcVars, factoryVars, facadeVars, workerVars>>

\* line 30: time.sleep(delay * (attempt + 1))
sleep_length(delay, attempt) == delay * (attempt + 1)

RetrySleep ==
    /\ retry.pc = "sleep"
    /\ retry' = [retry EXCEPT !.pc = "for", !.attempt = @ + 1,
                              !.sleeps = Append(@, sleep_length(retry.delay, retry.attempt))]
    /\ UNCHANGED <<docVars, calcVars, factoryVars, facadeVars, workerVars>>

RetryNext == RetryStart \/ RetryFor \/ RetryAttempt \/ RetrySleep

(***************************************************************************)
(* ProviderFactory.get_provider, statement by statement, for concurrent    *)
(* callers.  Strings are sequences of characters, so that the cache key is *)
(* the concatenation the f-string builds.                                  *)
(***************************************************************************)
NCallers == 2
Callers == 1..NCallers
NoCaller == 0
NoInstance == 0
NoUrl == <<"None">>         \* base_url=None

ProviderArgs ==
    [provider_code : {"zapsign", "docusign"},
     api_token : {<<"a">>, <<"a", ":", "b">>},
     base_url : {NoUrl, <<"b", ":">>}]

\* f'{provider_code}:{api_token}:{base_url or ""}'
cache_key(provider_code, api_token, base_url) ==
    <<provider_code>> \o <<":">> \o api_token \o <<":">>
        \o (IF base_url = NoUrl THEN <<>> ELSE base_url)
key_of(a) == cache_key(a.provider_code, a.api_token, a.base_url)
NoArgs == [provider_code |-> None, api_token |-> <<>>, base_url |-> NoUrl]

FactoryIdle ==
    /\ cache = <<>>
    /\ lock = NoCaller
    /\ pc = [t \in Callers |-> "idle"]
    /\ req = [t \in Callers |-> NoArgs]
    /\ ret = [t \in Callers |-> NoInstance]
    /\ made = <<>>

\* line 23: a caller enters get_provider
GetProvider(t) ==
    /\ pc[t] = "idle"
    /\ \E a \in ProviderArgs : req' = [req EXCEPT ![t] = a]
    /\ pc' = [pc EXCEPT ![t] = "check"]
    /\ UNCHANGED <<cache, lock, ret, made>>
    /\ UNCHANGED <<docVars, calcVars, retryVars, facadeVars, workerVars>>

\* line 26: if cache_key not in self._providers_cache
Check(t) ==
    /\ pc[t] = "check"
    /\ pc' = [pc EXCEPT ![t] = IF key_of(req[t]) \notin DOMAIN cache
                               THEN "acquire" ELSE "return"]
    /\ UNCHANGED <<cache, lock, req, ret, made>>
    /\ UNCHANGED <<docVars, calcVars, retryVars, facadeVars, workerVars>>

\* line 27: with self._lock
Acquire(t) ==
    /\ pc[t] = "acquire"
    /\ lock = NoCaller
    /\ lock' = t
    /\ pc' = [pc EXCEPT ![t] = "recheck"]
    /\ UNCHANGED <<cache, req, ret, made>>
    /\ UNCHANGED <<docVars, calcVars, retryVars, facadeVars, workerVars>>

\* a variant without the second test: the entry is taken to be missing
always_missing(c, key) == TRUE

\* line 28: the second test, under the lock
missing_under_lock(c, key) == key \notin DOMAIN c

Recheck(t) ==
    /\ pc[t] = "recheck"
    /\ pc' = [pc EXCEPT ![t] = IF missing_under_lock(cache, key_of(req[t]))
                               THEN "create" ELSE "release"]
    /\ UNCHANGED <<cache, lock, req, ret, made>>
    /\ UNCHANGED <<docVars, calcVars, retryVars, facadeVars, workerVars>>

\* line 29: _create_strategy builds the instance, or raises for an unknown code
\* (the exception leaves the with block, which releases the lock)
Create(t) ==
    /\ pc[t] = "create"
    /\ IF known_provider(req[t].provider_code)
       THEN /\ made' = Append(made, req[t])
            /\ pc' = [pc EXCEPT ![t] = "store"]
            /\ UNCHANGED lock
       ELSE /\ pc' = [pc EXCEPT ![t] = "raised"]
            /\ lock' = NoCaller
            /\ UNCHANGED made
    /\ UNCHANGED <<cache, req, ret>>
    /\ UNCHANGED <<docVars, calcVars, retryVars, facadeVars, workerVars>>

\* line 30: self._providers_cache[cache_key] = strategy
Store(t) ==
    /\ pc[t] = "store"
    /\ cache' = (key_of(req[t]) :> Len(made)) @@ cache
    /\ pc' = [pc EXCEPT ![t] = "release"]
    /\ UNCHANGED <<lock, req, ret, made>>
    /\ UNCHANGED <<docVars, calcVars, retryVars, facadeVars, workerVars>>

\* the end of the with block
Release(t) ==
    /\ pc[t] = "release"
    /\ lock' = NoCaller
    /\ pc' = [pc EXCEPT ![t] = "return"]
    /\ UNCHANGED <<cache, req, ret, made>>
    /\ UNCHANGED <<docVars, calcVars, retryVars, facadeVars, workerVars>>

\* line 32: return self._providers_cache[cache_key]  (KeyError when it is missing)
Return(t) ==
    /\ pc[t] = "return"
    /\ IF key_of(req[t]) \notin DOMAIN cache
       THEN /\ pc' = [pc EXCEPT ![t] = "raised"]
            /\ UNCHANGED ret
       ELSE /\ pc' = [pc EXCEPT ![t] = "done"]
            /\ ret' = [ret EXCEPT ![t] = cache[key_of(req[t])]]
    /\ UNCHANGED <<cache, lock, req, made>>
    /\ UNCHANGED <<docVars, calcVars, retryVars, facadeVars, workerVars>>

FactoryNext ==
    \E t \in Callers :
        \/ GetProvider(t)
        \/ Check(t)
        \/ Acquire(t)
        \/ Recheck(t)
        \/ Create(t)
        \/ Store(t)
        \/ Release(t)
        \/ Return(t)

\* clear_cache (lines 47-49), by any other thread: the lock is taken, the dict is
\* emptied and the lock is released; no get_provider statement outside the with
\* block can tell the three apart
ClearCache ==
    /\ lock = NoCaller
    /\ cache' = <<>>
    /\ UNCHANGED <<lock, pc, req, ret, made>>
    /\ UNCHANGED <<docVars, calcVars, retryVars, facadeVars, workerVars>>

FactoryClearNext == FactoryNext \/ ClearCache

(***************************************************************************)
(* One call of a facade method that reaches the provider (create_document, *)
(* get_document_status, add_signer, cancel_document): the strategy is      *)
(* resolved through the factory, then the strategy's method runs under     *)
(* _retry_operation.  The factory may already hold a strategy of an        *)
(* earlier call.                                                           *)
(***************************************************************************)
FacadeMethods == {"create_document", "get_document_status", "add_signer", "cancel_document"}

FacadeIdle ==
    facade = [pc |-> "idle", method |-> None, caller |-> NoCaller, resolutions |-> 0,
              raised_by |-> None]

\* the arguments of an earlier, completed get_provider call
WarmArgs == [provider_code |-> "zapsign", api_token |-> <<"a">>, base_url |-> NoUrl]
WarmCaches == {<<>>, key_of(WarmArgs) :> Len(<<WarmArgs>>)}

FacadeInit ==
    /\ FacadeIdle
    /\ lock = NoCaller
    /\ pc = [t \in Callers |-> "idle"]
    /\ req = [t \in Callers |-> NoArgs]
    /\ ret = [t \in Callers |-> NoInstance]
    /\ cache \in WarmCaches
    /\ made = IF cache = <<>> THEN <<>> ELSE <<WarmArgs>>

\* the first statement of the four methods (lines 40, 53, 63, 74):
\* strategy = self._get_strategy(company), which enters get_provider with the
\* company's provider code, api token and base url (factory.py lines 34-39)
FacadeCall ==
    /\ facade.pc = "idle"
    /\ \E t \in Callers, method \in FacadeMethods, a \in ProviderArgs :
          /\ pc[t] = "idle"
          /\ facade' = [facade EXCEPT !.pc = "_get_strategy", !.method = method,
                                      !.caller = t, !.resolutions = @ + 1]
          /\ req' = [req EXCEPT ![t] = a]
          /\ pc' = [pc EXCEPT ![t] = "check"]
    /\ UNCHANGED <<cache, lock, ret, made>>
    /\ UNCHANGED <<docVars, calcVars, retryVars, workerVars>>

\* get_provider, run by the caller of the facade method
resolving(t) == facade.pc = "_get_strategy" /\ facade.caller = t

FacadeGetProvider ==
    \E t \in Callers :
        \/ resolving(t) /\ Check(t)
        \/ resolving(t) /\ Acquire(t)
        \/ resolving(t) /\ Recheck(t)
        \/ resolving(t) /\ Create(t)
        \/ resolving(t) /\ Store(t)
        \/ resolving(t) /\ Release(t)
        \/ resolving(t) /\ Return(t)

\* an exception of get_provider leaves _get_strategy and the facade method: no
\* try statement encloses the first statement of the method
FacadeStrategyRaised ==
    /\ facade.pc = "_get_strategy"
    /\ pc[facade.caller] = "raised"
    /\ facade' = [facade EXCEPT !.pc = "raised", !.raised_by = "_get_strategy"]
    /\ UNCHANGED <<docVars, calcVars, retryVars, factoryVars, workerVars>>

\* the strategy is returned; the method reads the company's retry_policy and calls
\* _retry_operation with the strategy's method (lines 41-50), which reads the policy
FacadeRetryOperation ==
    /\ facade.pc = "_get_strategy"
    /\ pc[facade.caller] = "done"
    /\ retry.pc = "idle"
    /\ \E retry_config \in RetryPolicies :
          retry' = [retry EXCEPT
                      !.pc = "for",
                      !.max_retries = dict_get(retry_config, "max_retries", DefaultMaxRetries),
                      !.delay = dict_get(retry_config, "delay", DefaultDelay)]
    /\ facade' = [facade EXCEPT !.pc = "_retry_operation"]
    /\ UNCHANGED <<docVars, calcVars, factoryVars, workerVars>>

\* the loop of _retry_operation
retrying == facade.pc = "_retry_operation"

FacadeRetry ==
    \/ retrying /\ RetryFor
    \/ retrying /\ RetryAttempt
    \/ retrying /\ RetrySleep

\* the method returns what _retry_operation returned, or lets its exception pass
FacadeReturn ==
    /\ facade.pc = "_retry_operation"
    /\ retry.pc \in {"returned", "raised"}
    /\ facade' = [facade EXCEPT
                    !.pc = retry.pc,
                    !.raised_by = IF retry.pc = "raised" THEN "operation" ELSE None]
    /\ UNCHANGED <<docVars, calcVars, retryVars, factoryVars, workerVars>>

FacadeNext ==
    \/ FacadeCall
    \/ FacadeGetProvider
    \/ FacadeStrategyRaised
    \/ FacadeRetryOperation
    \/ FacadeRetry
    \/ FacadeReturn

(***************************************************************************)
(* The background analysis: create_document and send_draft_to_signature    *)
(* end with _trigger_automatic_analysis, which starts a daemon thread and  *)
(* returns.  The thread extracts the text, analyses it and stores a        *)
(* DocumentAnalysis row; each step can fail; the thread's function catches *)
(* every exception and logs it.                                            *)
(***************************************************************************)
AnalysisIdle ==
    analysis = [caller |-> "idle", op |-> None, thread |-> "none", row |-> FALSE,
                persisted |-> NoDoc]

\* a variant in which a failed analysis removes the document
rolled_back(d) == NoDoc

\* lines 95-96: except Exception: logger.error(...): the rows are left as they are
after_failure(d) == d

\* create_document with save_as_draft returns at line 52, before the trigger
AnalysisCreateDraft ==
    /\ analysis.caller = "idle"
    /\ ~doc.created
    /\ \E sd \in SignersData :
          doc' = create_document(TRUE, sd, [kind |-> "error"]).doc
    /\ UNCHANGED <<calcVars, retryVars, factoryVars, facadeVars, workerVars>>

\* create_document up to line 84: the document and its signers are saved
AnalysisCreate ==
    /\ analysis.caller = "idle"
    /\ ~doc.created
    /\ \E sd \in SignersData, out \in CreateOutcomes :
          \E r \in {create_document(FALSE, sd, out)} :
              /\ r.result = "saved"
              /\ doc' = r.doc
              /\ analysis' = [analysis EXCEPT !.caller = "trigger", !.op = "create_document",
                                              !.persisted = r.doc]
    /\ UNCHANGED <<calcVars, retryVars, factoryVars, facadeVars, wk, promo>>

\* send_draft_to_signature up to line 223: document.save()
AnalysisSend ==
    /\ analysis.caller = "idle"
    /\ doc.created
    /\ \E out \in CreateOutcomes :
          \E r \in {send_draft_to_signature(doc, out)} :
              /\ r.result = "saved"
              /\ doc' = r.doc
              /\ analysis' = [analysis EXCEPT !.caller = "trigger",
                                              !.op = "send_draft_to_signature",
                                              !.persisted = r.doc]
    /\ UNCHANGED <<calcVars, retryVars, factoryVars, facadeVars, wk, promo>>

\* lines 99-100: thread = threading.Thread(..., daemon=True); thread.start()
AnalysisTrigger ==
    /\ analysis.caller = "trigger"
    /\ analysis' = [analysis EXCEPT !.caller = "return", !.thread = "extract"]
    /\ UNCHANGED <<docVars, calcVars, retryVars, factoryVars, facadeVars, wk, promo>>

\* line 88 / line 229: return document
AnalysisReturn ==
    /\ analysis.caller = "return"
    /\ analysis' = [analysis EXCEPT !.caller = "returned"]
    /\ UNCHANGED <<docVars, calcVars, retryVars, factoryVars, facadeVars, wk, promo>>

\* one step of analyze_document in the thread; a failure is caught at line 95
thread_step(to, fails) ==
    IF fails THEN [analysis EXCEPT !.thread = "logged"]
    ELSE [analysis EXCEPT !.thread = to, !.row = (to = "done") \/ analysis.row]

\* document_analysis_service.py line 88: the text is extracted from the file
AnalysisExtract ==
    /\ analysis.thread = "extract"
    /\ \E fails \in BOOLEAN :
          /\ analysis' = thread_step("analyze", fails)
          /\ doc' = IF fails THEN after_failure(doc) ELSE doc
    /\ UNCHANGED <<calcVars, retryVars, factoryVars, facadeVars, wk, promo>>

\* lines 103-151: Gemini, then spaCy
AnalysisAnalyze ==
    /\ analysis.thread = "analyze"
    /\ \E fails \in BOOLEAN :
          /\ analysis' = thread_step("store", fails)
          /\ doc' = IF fails THEN after_failure(doc) ELSE doc
    /\ UNCHANGED <<calcVars, retryVars, factoryVars, facadeVars, wk, promo>>

\* lines 183-192: DocumentAnalysis.objects.update_or_create
AnalysisStore ==
    /\ analysis.thread = "store"
    /\ \E fails \in BOOLEAN :
          /\ analysis' = thread_step("done", fails)
          /\ doc' = IF fails THEN after_failure(doc) ELSE doc
    /\ UNCHANGED <<calcVars, retryVars, factoryVars, facadeVars, wk, promo>>

AnalysisNext ==
    \/ AnalysisCreateDraft
    \/ AnalysisCreate
    \/ AnalysisSend
    \/ AnalysisTrigger
    \/ AnalysisReturn
    \/ AnalysisExtract
    \/ AnalysisAnalyze
    \/ AnalysisStore

(***************************************************************************)
(* signer_signed deliveries handled by concurrent workers, one delivery    *)
(* per signer of the document.  Each worker runs webhook_handler and the   *)
(* signer_signed branch of _process_webhook_event on its own Document      *)
(* object; the rows are shared.                                            *)
(***************************************************************************)
Workers == 1..MaxSigners

WebhookWorkersIdle ==
    wk = [w \in Workers |-> [pc |-> "idle", provider_status |-> None,
                              internal_status |-> None]]

\* the documents the deliveries are about: sent to the provider, every signer
\* new or with the link opened; signer w has token w
SentDocuments ==
    {create_document(FALSE, <<>>, out).doc :
        out \in {o \in CreateOutcomes :
                    /\ o.kind = "response" /\ o.token = "tok" /\ o.status = "pending"
                    /\ Len(o.signers) = MaxSigners
                    /\ \A i \in 1..MaxSigners : o.signers[i].status \in {"new", "link-opened"}}}

WebhookWorkersInit == doc \in SentDocuments /\ WebhookWorkersIdle

\* webhooks.py line 27: document = Document.objects.get(token=doc_token)
WorkerLoad(w) ==
    /\ wk[w].pc = "idle"
    /\ wk' = [wk EXCEPT ![w] = [pc |-> "handle_webhook",
                                provider_status |-> doc.provider_status,
                                internal_status |-> doc.internal_status]]
    /\ UNCHANGED <<docVars, calcVars, retryVars, factoryVars, facadeVars, analysis, promo>>

\* lines 31-34: facade.handle_webhook logs the event; the event type is read and
\* _process_webhook_event is entered
WorkerHandleWebhook(w) ==
    /\ wk[w].pc = "handle_webhook"
    /\ wk' = [wk EXCEPT ![w].pc = "get_signer"]
    /\ UNCHANGED <<docVars, calcVars, retryVars, factoryVars, facadeVars, analysis, promo>>

\* line 57: signer = document.signers.get(token=signer_token)
WorkerGetSigner(w) ==
    /\ wk[w].pc = "get_signer"
    /\ wk' = [wk EXCEPT ![w].pc =
                 IF \E i \in 1..Len(doc.signers) : doc.signers[i].token = w
                 THEN "save_signer" ELSE "done"]
    /\ UNCHANGED <<docVars, calcVars, retryVars, factoryVars, facadeVars, analysis, promo>>

\* lines 58-59: signer.status = 'signed'; signer.save()
WorkerSaveSigner(w) ==
    /\ wk[w].pc = "save_signer"
    /\ doc' = [doc EXCEPT !.signers = [i \in 1..Len(doc.signers) |->
                    IF doc.signers[i].token = w
                    THEN [doc.signers[i] EXCEPT !.status = "signed"]
                    ELSE doc.signers[i]]]
    /\ wk' = [wk EXCEPT ![w].pc = "all"]
    /\ UNCHANGED <<calcVars, retryVars, factoryVars, facadeVars, analysis, promo>>

\* lines 61-66: the signer rows are read, and the statuses are assigned on the
\* worker's Document object
WorkerReadAll(w) ==
    /\ wk[w].pc = "all"
    /\ wk' = [wk EXCEPT ![w] =
                 IF all_signed(doc.signers)
                 THEN [pc |-> "save", provider_status |-> "signed",
                       internal_status |-> "signed"]
                 ELSE [pc |-> "save", provider_status |-> wk[w].provider_status,
                       internal_status |-> "in_progress"]]
    /\ UNCHANGED <<docVars, calcVars, retryVars, factoryVars, facadeVars, analysis, promo>>

\* line 67: document.save() writes the fields of the worker's Document object
WorkerSaveDocument(w) ==
    /\ wk[w].pc = "save"
    /\ doc' = [doc EXCEPT !.provider_status = wk[w].provider_status,
                          !.internal_status = wk[w].internal_status]
    /\ wk' = [wk EXCEPT ![w].pc = "done"]
    /\ UNCHANGED <<calcVars, retryVars, factoryVars, facadeVars, analysis, promo>>

WebhookWorkersNext ==
    \E w \in Workers :
        \/ WorkerLoad(w)
        \/ WorkerHandleWebhook(w)
        \/ WorkerGetSigner(w)
        \/ WorkerSaveSigner(w)
        \/ WorkerReadAll(w)
        \/ WorkerSaveDocument(w)

(***************************************************************************)
(* send_to_signature requests for one draft, handled concurrently: each    *)
(* request loads the document, runs send_draft_to_signature on its own     *)
(* Document object and saves.  The provider creates a document, with a new *)
(* token, at every successful create_document call.                        *)
(***************************************************************************)
\* the token of the k-th document the provider creates
TokenOf(k) == CASE k = 1 -> "tok" [] k = 2 -> "tok2" [] OTHER -> "tok3"

NoResponse ==
    [kind |-> "error", token |-> Absent, open_id |-> Absent, status |-> Absent,
     signers |-> <<>>]

PromotersIdle ==
    promo = [created |-> 0,
             of |-> [t \in Callers |->
                       [pc |-> "idle", internal_status |-> None, token |-> None,
                        response |-> NoResponse]]]

PromotersInit ==
    /\ PromotersIdle
    /\ doc \in {create_document(TRUE, sd, NoResponse).doc : sd \in SignersData}

\* views.py line 265: document = self.get_object()
PromoteLoad(t) ==
    /\ promo.of[t].pc = "idle"
    /\ promo' = [promo EXCEPT !.of[t].pc = "check",
                              !.of[t].internal_status = doc.internal_status,
                              !.of[t].token = doc.token]
    /\ UNCHANGED <<docVars, calcVars, retryVars, factoryVars, facadeVars, analysis, wk>>

\* signature_service.py lines 183-186: the two tests, on the request's object
PromoteCheck(t) ==
    /\ promo.of[t].pc = "check"
    /\ promo' = [promo EXCEPT !.of[t].pc =
                    IF promo.of[t].internal_status # "draft" THEN "ValueError"
                    ELSE IF truthy(promo.of[t].token) THEN "returned"
                    ELSE "create"]
    /\ UNCHANGED <<docVars, calcVars, retryVars, factoryVars, facadeVars, analysis, wk>>

\* lines 196-202: self.facade.create_document(...) succeeds, the provider creating
\* a document with an entry per signer sent, or fails
PromoteCreate(t) ==
    /\ promo.of[t].pc = "create"
    /\ \/ promo' = [promo EXCEPT !.of[t].pc = "raised"]
       \/ promo' = [promo EXCEPT
                       !.created = @ + 1,
                       !.of[t].pc = "update",
                       !.of[t].response =
                           [kind |-> "response", token |-> TokenOf(promo.created + 1),
                            open_id |-> "oid", status |-> "pending",
                            signers |-> [i \in 1..Len(doc.signers) |->
                                           [token |-> i, email |-> doc.signers[i].email,
                                            status |-> "new"]]]]
    /\ UNCHANGED <<docVars, calcVars, retryVars, factoryVars, facadeVars, analysis, wk>>

\* lines 204-223: the response is assigned on the request's object, the signer rows
\* are updated and the document is saved
PromoteSave(t) ==
    /\ promo.of[t].pc = "update"
    /\ doc' = send_draft_to_signature(
                  [doc EXCEPT !.internal_status = promo.of[t].internal_status,
                              !.token = promo.of[t].token],
                  promo.of[t].response).doc
    /\ promo' = [promo EXCEPT !.of[t].pc = "returned"]
    /\ UNCHANGED <<calcVars, retryVars, factoryVars, facadeVars, analysis, wk>>

PromotersNext ==
    \E t \in Callers :
        \/ PromoteLoad(t)
        \/ PromoteCheck(t)
        \/ PromoteCreate(t)
        \/ PromoteSave(t)

WorkersIdle == AnalysisIdle /\ WebhookWorkersIdle /\ PromotersIdle

(***************************************************************************)
(* The specifications: each runs one part and leaves the others idle.      *)
(***************************************************************************)
Init == DocInit /\ CalcIdle /\ RetryIdle /\ FactoryIdle /\ FacadeIdle /\ WorkersIdle
Spec == Init /\ [][DocNext]_vars

InitCalc == CalcInit /\ DocInit /\ RetryIdle /\ FactoryIdle /\ FacadeIdle /\ WorkersIdle
SpecCalc == InitCalc /\ [][CalcNext]_vars

InitRetry == RetryIdle /\ DocInit /\ CalcIdle /\ FactoryIdle /\ FacadeIdle /\ WorkersIdle
SpecRetry == InitRetry /\ [][RetryNext]_vars

InitFactory == FactoryIdle /\ DocInit /\ CalcIdle /\ RetryIdle /\ FacadeIdle /\ WorkersIdle
SpecFactory == InitFactory /\ [][FactoryNext]_vars

SpecFactoryClear == InitFactory /\ [][FactoryClearNext]_vars

InitFacade == FacadeInit /\ DocInit /\ CalcIdle /\ RetryIdle /\ WorkersIdle
SpecFacade == InitFacade /\ [][FacadeNext]_vars

InitAnalysis == Init

InitWebhookWorkers ==
    /\ WebhookWorkersInit /\ CalcIdle /\ RetryIdle /\ FactoryIdle /\ FacadeIdle
    /\ AnalysisIdle /\ PromotersIdle
SpecWebhookWorkers == InitWebhookWorkers /\ [][WebhookWorkersNext]_vars

InitPromoters ==
    /\ PromotersInit /\ CalcIdle /\ RetryIdle /\ FactoryIdle /\ FacadeIdle
    /\ AnalysisIdle /\ WebhookWorkersIdle
SpecPromoters == InitPromoters /\ [][PromotersNext]_vars
SpecAnalysis == InitAnalysis /\ [][AnalysisNext]_vars

(***************************************************************************)
(* Properties of the document lifecycle (specification Spec).  Each is a   *)
(* statement about a stored document and every request that can reach it:  *)
(* the handlers are applied to the document by the formula.                *)
(***************************************************************************)
Statuses(d) == [i \in 1..Len(d.signers) |-> d.signers[i].status]
Stored == doc.created /\ doc.token = "tok"
\* the documents a webhook delivery, and a refresh, can leave in place of d
AfterWebhook(d) ==
    {webhook_handler(d, code, p).doc : code \in ProviderCodes, p \in Payloads}
AfterRefresh(d) ==
    {update_document_status(d, out).doc : out \in StatusOutcomes(d)}

\* C1 (idempotent terminal state): once internal_status is signed, cancelled,
\* rejected or expired, no webhook delivery and no refresh changes internal_status
\* or the status of any signer.
C1_IdempotentTerminal ==
    (doc.created /\ doc.internal_status \in Terminal) =>
        \A after \in AfterWebhook(doc) \cup AfterRefresh(doc) :
            /\ after.internal_status = doc.internal_status
            /\ Statuses(after) = Statuses(doc)

\* C2 (monotonic signer progress): a signer that is signed or rejected is never
\* set to pending or in_progress by a webhook delivery or a refresh.
C2_MonotonicSigner ==
    doc.created =>
        \A after \in AfterWebhook(doc) \cup AfterRefresh(doc) :
            \A i \in 1..Len(doc.signers) :
                doc.signers[i].status \in {"signed", "rejected"}
                    => after.signers[i].status \notin {"pending", "in_progress"}

Changed(before, after) ==
    \/ after.provider_status # before.provider_status
    \/ Statuses(after) # Statuses(before)
Derived(d) ==
    d.internal_status = _calculate_internal_status(d.signers, d.provider_status)

\* C3 (derivation invariant): after a create, a promotion of a draft, a refresh or
\* a webhook delivery that changed provider_status or a signer status, the stored
\* internal_status is the derivation rule applied to the stored provider_status and
\* signer statuses.
C3_DerivationInvariant ==
    /\ ~doc.created =>
          \A out \in CreateOutcomes :
              LET after == create_document(FALSE, <<>>, out).doc
              IN  after.created => Derived(after)
    /\ doc.created =>
          /\ \A after \in AfterWebhook(doc) \cup AfterRefresh(doc) :
                Changed(doc, after) => Derived(after)
          /\ \A out \in CreateOutcomes :
                LET after == send_draft_to_signature(doc, out).doc
                IN  Changed(doc, after) => Derived(after)

\* the responses with which a refresh of d obtains provider_status == 'signed'
SignedOutcomes(d) ==
    {out \in StatusOutcomes(d) :
        /\ out.kind = "response"
        /\ \/ out.status = "signed"
           \/ out.status = Absent /\ d.provider_status = "signed"}
AllSigned(d) == \A i \in 1..Len(d.signers) : d.signers[i].status = "signed"

\* C5, as claimed (force-advance on signed): after a refresh that obtained
\* provider_status == signed has completed, every signer is signed and
\* internal_status is signed, whatever the signers' statuses were before.
C5_ForceAdvanceAll ==
    Stored =>
        \A out \in SignedOutcomes(doc) :
            \A r \in {update_document_status(doc, out)} :
                r.result = "saved" => (AllSigned(r.doc) /\ r.doc.internal_status = "signed")

\* C5, amended: after a refresh that obtained provider_status == signed has
\* completed, no signer is pending or in_progress, a rejected or cancelled signer
\* the response does not list keeps its status, and internal_status is signed when
\* every signer is signed and in_progress otherwise.
C5_ForceAdvancePending ==
    Stored =>
        \A out \in SignedOutcomes(doc) :
            \A r \in {update_document_status(doc, out)} :
                r.result = "saved" =>
                    /\ r.doc.provider_status = "signed"
                    /\ \A i \in 1..Len(r.doc.signers) :
                          /\ r.doc.signers[i].status \notin {"pending", "in_progress"}
                          /\ (/\ doc.signers[i].status \in {"rejected", "cancelled"}
                              /\ by_token(out.signers, doc.signers[i].token) = {})
                                => r.doc.signers[i].status = doc.signers[i].status
                    /\ r.doc.internal_status =
                          IF AllSigned(r.doc) THEN "signed" ELSE "in_progress"

\* a document with a rejected and an in_progress signer, on which a refresh that
\* obtains signed advances the second, keeps the first and derives in_progress
C5_Witness ==
    /\ Stored
    /\ Len(doc.signers) = 2
    /\ doc.signers[1].status = "rejected"
    /\ doc.signers[2].status = "in_progress"
    /\ \E out \in SignedOutcomes(doc) :
          \E r \in {update_document_status(doc, out)} :
              /\ r.result = "saved"
              /\ r.doc.signers[1].status = "rejected"
              /\ r.doc.signers[2].status = "signed"
              /\ r.doc.internal_status = "in_progress"

DocSignedPayload ==
    [token |-> "tok", event |-> "doc_signed", signer |-> NoToken,
     unauthenticated_signer |-> NoToken, email |-> Absent]
DocSigned(d) == webhook_handler(d, "zapsign", DocSignedPayload).doc

\* C6 (doc_signed webhook): handling doc_signed for a stored document sets
\* provider_status and internal_status to signed and sets every pending or
\* in_progress signer to signed.
C6_DocSignedForcesSigners ==
    Stored =>
        /\ DocSigned(doc).provider_status = "signed"
        /\ DocSigned(doc).internal_status = "signed"
        /\ \A i \in 1..Len(doc.signers) :
              doc.signers[i].status \in {"pending", "in_progress"}
                  => DocSigned(doc).signers[i].status = "signed"

Reconciled(d) == <<d.provider_status, d.internal_status, Statuses(d)>>

\* C7 (channel convergence): a doc_signed webhook and a refresh whose response
\* reports signed leave the same provider_status, internal_status and signer
\* statuses in either order.
C7_ChannelConvergence ==
    Stored =>
        \A out \in {o \in StatusOutcomes(doc) : o.kind = "response" /\ o.status = "signed"} :
            LET webhook_first == update_document_status(DocSigned(doc), out).doc
                refresh_first == DocSigned(update_document_status(doc, out).doc)
            IN  Reconciled(webhook_first) = Reconciled(refresh_first)

DocRank(status) ==
    CASE status = "draft" -> 0
      [] status = "pending" -> 1
      [] status = "in_progress" -> 2
      [] OTHER -> 3
SignerRank(status) ==
    CASE status = "pending" -> 0
      [] status = "in_progress" -> 1
      [] OTHER -> 2
NotBackward(before, after) ==
    /\ DocRank(after.internal_status) >= DocRank(before.internal_status)
    /\ \A i \in 1..Len(before.signers) :
          SignerRank(after.signers[i].status) >= SignerRank(before.signers[i].status)

\* the newer events of the claim: signer_signed for a signer, or doc_signed
NewerPayloads ==
    {p \in Payloads : p.token = "tok" /\ p.event \in {"signer_signed", "doc_signed"}}
\* the stale refresh responses of the claim: status pending, signers new
StaleOutcomes(d) ==
    {o \in StatusOutcomes(d) :
        /\ o.kind = "response" /\ o.status = "pending"
        /\ \A i \in 1..Len(o.signers) : o.signers[i].status = "new"}

\* every webhook delivery and every refresh response, applied twice, leaves what
\* it leaves applied once
Idempotent ==
    Stored =>
        /\ \A code \in ProviderCodes, p \in Payloads :
              \A once \in {webhook_handler(doc, code, p).doc} :
                  webhook_handler(once, code, p).doc = once
        /\ \A out \in StatusOutcomes(doc) :
              \A once \in {update_document_status(doc, out).doc} :
                  update_document_status(once, out).doc = once
\* a stale refresh response applied after a newer webhook event moves nothing back
StaleHarmless ==
    Stored =>
        \A p \in NewerPayloads :
            \A newer \in {webhook_handler(doc, "zapsign", p).doc} :
                \A out \in StaleOutcomes(newer) :
                    NotBackward(newer, update_document_status(newer, out).doc)

\* C8 (duplicates and stale events): applying the same webhook delivery or the same
\* refresh response twice gives the state that applying it once gives, and a stale
\* refresh response (status pending, signers new) applied after a newer webhook
\* event (signer_signed, doc_signed) moves neither internal_status nor a signer
\* status backward.
C8_NoRegression == Idempotent /\ StaleHarmless

(***************************************************************************)
(* Properties of _calculate_internal_status (specification SpecCalc).      *)
(***************************************************************************)
SignedNumber(signers) ==
    Cardinality({i \in 1..Len(signers) : signers[i].status = "signed"})
\* the four steps, on the number of signed signers and the number of signers
FourStepRule(signers, provider_status) ==
    IF provider_status \in {"cancelled", "rejected", "expired"} THEN provider_status
    ELSE IF provider_status = "signed"
         THEN (IF SignedNumber(signers) = Len(signers) THEN "signed" ELSE "in_progress")
    ELSE IF 0 < SignedNumber(signers) /\ SignedNumber(signers) < Len(signers)
         THEN "in_progress"
    ELSE to_internal_status(provider_status)

\* C4 (derivation rule): _calculate_internal_status returns what the four-step rule
\* gives for the provider_status and the multiset of signer statuses, and returns
\* the same for every order in which the signers are iterated.
C4_FourStepRule ==
    calc.phase = "done" =>
        /\ calc.result = FourStepRule(calc.signers, calc.provider_status)
        /\ \A p \in Permutations(1..Len(calc.signers)) :
              _calculate_internal_status(Reordered(calc.signers, p), calc.provider_status)
                  = calc.result

\* step 3 has decided: one of two signers signed, the provider still says pending
C4_Witness ==
    /\ calc.phase = "done"
    /\ calc.provider_status = "pending"
    /\ Len(calc.signers) = 2
    /\ calc.signers[1].status = "pending"
    /\ calc.signers[2].status = "signed"
    /\ calc.result = "in_progress"

(***************************************************************************)
(* Properties of ProviderFactory.get_provider (specification SpecFactory). *)
(***************************************************************************)
Constructions(key) == {i \in 1..Len(made) : key_of(made[i]) = key}

\* C9 (cache singularity): concurrent get_provider calls with identical arguments
\* all return the same strategy instance, and that strategy was constructed
\* exactly once.
C9_CacheSingularity ==
    \A t \in Callers :
        pc[t] = "done" =>
            /\ ret[t] # NoInstance
            /\ Cardinality(Constructions(key_of(req[t]))) = 1
            /\ \A u \in Callers :
                  (pc[u] = "done" /\ req[u] = req[t]) => ret[u] = ret[t]

\* two callers with identical arguments have both returned, one construction made
C9_Witness ==
    \E t, u \in Callers :
        /\ t # u
        /\ pc[t] = "done" /\ pc[u] = "done"
        /\ req[t] = req[u]
        /\ ret[t] = ret[u] /\ ret[t] # NoInstance
        /\ Cardinality(Constructions(key_of(req[t]))) = 1

(***************************************************************************)
(* Properties of _retry_operation (specification SpecRetry).               *)
(***************************************************************************)
Finished == retry.pc \in {"returned", "raised"}
\* delay x 1, delay x 2, ... : the waits before attempts 2 .. n
Waits(delay, n) == [i \in 1..(n - 1) |-> delay * i]
RetryBound ==
    Finished =>
        /\ retry.outcome # "result" =>
              /\ retry.calls = retry.max_retries
              /\ retry.sleeps = Waits(retry.delay, retry.max_retries)
              /\ retry.outcome = "exception"
              /\ retry.of_call = retry.calls
        /\ retry.outcome = "result" =>
              /\ retry.of_call = retry.calls
              /\ retry.sleeps = Waits(retry.delay, retry.calls)

\* C10 (retry bound): a call that fails at every attempt is attempted exactly
\* max_retries times, with waits delay x 1, delay x 2, ... between the attempts, and
\* then the exception of the last attempt is raised; a call that succeeds at
\* attempt k returns that result after k attempts.
C10_RetryBound == RetryBound

\* the same for the policies with max_retries >= 1
RetryBoundPositive == retry.max_retries >= 1 => RetryBound

(***************************************************************************)
(* Scenarios of the document lifecycle (specification Spec).               *)
(***************************************************************************)
SignerSignedPayload(t) ==
    [token |-> "tok", event |-> "signer_signed", signer |-> t,
     unauthenticated_signer |-> NoToken, email |-> Absent]
SignerSigned(d, t) == webhook_handler(d, "zapsign", SignerSignedPayload(t)).doc
\* a stored document with exactly two signers the provider knows, neither signed
TwoUnsigned ==
    /\ Stored
    /\ Len(doc.signers) = 2
    /\ doc.signers[1].token # doc.signers[2].token
    /\ \A i \in 1..2 : doc.signers[i].token # NoToken /\ doc.signers[i].status # "signed"

\* C11 (two signer_signed webhooks): for a document with exactly two signers, neither
\* signed, internal_status is in_progress after the signer_signed webhook of one
\* and signed after the following signer_signed webhook of the other.
C11_TwoSignerSigned ==
    TwoUnsigned =>
        \A a, b \in 1..2 :
            a # b =>
                \A first \in {SignerSigned(doc, doc.signers[a].token)} :
                    /\ first.internal_status = "in_progress"
                    /\ first.signers[a].status = "signed"
                    /\ SignerSigned(first, doc.signers[b].token).internal_status = "signed"

\* two pending signers of a pending document, and the two deliveries
C11_Witness ==
    /\ TwoUnsigned
    /\ doc.internal_status = "pending"
    /\ \A i \in 1..2 : doc.signers[i].status = "pending"
    /\ SignerSigned(doc, doc.signers[1].token).internal_status = "in_progress"
    /\ SignerSigned(SignerSigned(doc, doc.signers[1].token),
                    doc.signers[2].token).internal_status = "signed"

\* the ways the provider reports a document as not found: an exception whose text
\* carries 404 / not found, or a response with status 'not_found'
NotFoundOutcomes(d) ==
    {out \in StatusOutcomes(d) :
        \/ out.kind = "not_found_exc"
        \/ out.kind = "response" /\ out.status = "not_found"}

\* C12 (not found on refresh): when the provider reports the document as not found,
\* update_document_status raises nothing and returns the document as it was: no
\* field of the document and no signer is changed or saved.
C12_NotFoundNoOp ==
    (doc.created /\ truthy(doc.token)) =>
        \A out \in NotFoundOutcomes(doc) :
            \A r \in {update_document_status(doc, out)} :
                r.result = "unchanged" /\ r.doc = doc

\* a document in progress with signers, refreshed while the provider has lost it
C12_Witness ==
    /\ Stored
    /\ doc.internal_status = "in_progress"
    /\ Len(doc.signers) = 2
    /\ \A out \in NotFoundOutcomes(doc) : update_document_status(doc, out).doc = doc
    /\ \E out \in NotFoundOutcomes(doc) : out.kind = "response"
    /\ \E out \in NotFoundOutcomes(doc) : out.kind = "not_found_exc"

\* C13 (cancellation): on a document with a token, once the provider's cancel call
\* has succeeded, cancel_document leaves provider_status = internal_status =
\* 'cancelled', whatever the signers and the previous internal_status were.
C13_CancelSetsCancelled ==
    (doc.created /\ truthy(doc.token)) =>
        \A r \in {cancel_document(doc, [kind |-> "response"])} :
            /\ r.result = "saved"
            /\ r.doc.provider_status = "cancelled"
            /\ r.doc.internal_status = "cancelled"
            /\ r.doc.signers = doc.signers

\* a signed document with a signed signer is cancelled all the same
C13_Witness ==
    /\ Stored
    /\ doc.internal_status = "signed"
    /\ \E i \in 1..Len(doc.signers) : doc.signers[i].status = "signed"
    /\ cancel_document(doc, [kind |-> "response"]).doc.internal_status = "cancelled"
    /\ cancel_document(doc, [kind |-> "response"]).doc.provider_status = "cancelled"

\* the signer table as the claim states it: the five named values, anything else
\* (a value without a status included) gives 'pending'
SignerTable(status) ==
    CASE status = "new" -> "pending"
      [] status = "link-opened" -> "in_progress"
      [] status = "signed" -> "signed"
      [] status = "refused" -> "rejected"
      [] status = "cancelled" -> "cancelled"
      [] OTHER -> "pending"

DocumentTable(status) ==
    IF status \in {"pending", "signed", "cancelled", "rejected", "expired"} THEN status
    ELSE "pending"

\* C14 (non-draft create): for every provider response, create_document stores the
\* response's token and open_id, internal_status is the mapping of the returned
\* status, and there is exactly one signer per returned entry, its status given by
\* the signer table (anything outside the table gives 'pending').
C14_CreateMapping ==
    ~doc.created =>
        \A sd \in SignersData, out \in CreateOutcomes :
            (out.kind = "response" /\ out.token # Absent) =>
                \A r \in {create_document(FALSE, sd, out)} :
                    /\ r.doc.created
                    /\ r.doc.token = out.token
                    /\ r.doc.open_id = out.open_id
                    /\ r.doc.internal_status = DocumentTable(out.status)
                    /\ Len(r.doc.signers) = Len(out.signers)
                    /\ \A i \in 1..Len(out.signers) :
                           /\ i \in DOMAIN r.doc.signers
                           /\ r.doc.signers[i].status = SignerTable(out.signers[i].status)

\* C15 (draft create): create_document with save_as_draft makes no provider call
\* and stores a document with internal_status 'draft', without token, open_id or
\* provider_status, and one signer per input signer, 'pending' and without token.
C15_DraftCreate ==
    ~doc.created =>
        \A sd \in SignersData, out \in CreateOutcomes :
            \A r \in {create_document(TRUE, sd, out)} :
                /\ r.provider_calls = 0
                /\ r.result = "saved"
                /\ r.doc.created
                /\ r.doc.internal_status = "draft"
                /\ r.doc.token = None /\ r.doc.open_id = None /\ r.doc.provider_status = None
                /\ Len(r.doc.signers) = Len(sd)
                /\ \A i \in 1..Len(sd) :
                       /\ r.doc.signers[i].email = sd[i].email
                       /\ r.doc.signers[i].status = "pending"
                       /\ r.doc.signers[i].token = NoToken

\* a stored draft with two signers
C15_Witness ==
    /\ doc.created
    /\ doc.internal_status = "draft"
    /\ doc.token = None /\ doc.open_id = None /\ doc.provider_status = None
    /\ Len(doc.signers) = 2
    /\ \A i \in 1..2 : doc.signers[i].status = "pending" /\ doc.signers[i].token = NoToken
    /\ \E sd \in SignersData : create_document(TRUE, sd, [kind |-> "error"]).doc = doc

\* C16 (promotion guard): send_draft_to_signature on a document whose
\* internal_status is not 'draft' fails with an error, calls no provider and leaves
\* the document and its signers as they were; on a draft it performs the provider
\* create_document call.
C16_PromotionGuard ==
    doc.created =>
        \A out \in CreateOutcomes :
            \A r \in {send_draft_to_signature(doc, out)} :
                IF doc.internal_status # "draft"
                THEN r.result = "ValueError" /\ r.provider_calls = 0 /\ r.doc = doc
                ELSE r.provider_calls = 1

\* a sent document in progress is refused, while the draft made from the same
\* signers is sent to the provider
C16_Witness ==
    /\ Stored
    /\ doc.internal_status = "in_progress"
    /\ Len(doc.signers) = 2
    /\ \A out \in CreateOutcomes :
           /\ send_draft_to_signature(doc, out).result = "ValueError"
           /\ send_draft_to_signature(doc, out).doc = doc
    /\ \E sd \in SignersData, out \in CreateOutcomes :
           /\ Len(sd) = 2
           /\ send_draft_to_signature(create_document(TRUE, sd, out).doc, out).result = "saved"
           /\ send_draft_to_signature(create_document(TRUE, sd, out).doc, out).provider_calls = 1

C18_WebhookAlways200 ==
    \A provider_code \in ProviderCodes, payload \in Payloads :
        \A r \in {webhook_handler(doc, provider_code, payload)} :
            /\ r.http = 200
            /\ ~truthy(payload.token) => r.doc = doc

\* a stored document with signers, for which the deliveries cover every way through
\* the handler
C18_Witness ==
    /\ Stored
    /\ doc.signers # <<>>
    /\ \E payload \in Payloads :
           webhook_handler(doc, "zapsign", payload).result = "no_token"
    /\ \E payload \in Payloads :
           webhook_handler(doc, "zapsign", payload).result = "no_document"
    /\ \E payload \in Payloads :
           webhook_handler(doc, "docusign", payload).result = "exception"
    /\ \E payload \in Payloads :
           /\ payload.event = "unknown"
           /\ webhook_handler(doc, "zapsign", payload).result = "processed"

(***************************************************************************)
(* Properties of a facade call (specification SpecFacade).                 *)
(***************************************************************************)
\* C19 (unknown provider code): when the company's provider code is unknown,
\* get_provider fails; the failure leaves the facade method at once, the retry
\* policy is never entered (the strategy is resolved exactly once and the
\* strategy's method is never called), and the strategy cache gets no entry.
C19_UnknownProviderSurfaced ==
    \A t \in Callers :
        (facade.pc # "idle" /\ facade.caller = t /\ req[t].provider_code = "docusign") =>
            /\ facade.resolutions = 1
            /\ facade.pc \in {"_get_strategy", "raised"}
            /\ facade.pc = "raised" => facade.raised_by = "_get_strategy"
            /\ pc[t] \notin {"store", "release", "return", "done"}
            /\ retry.pc = "idle" /\ retry.calls = 0 /\ retry.sleeps = <<>>
            /\ key_of(req[t]) \notin DOMAIN cache
            /\ cache \in WarmCaches
            /\ Len(made) = Cardinality(DOMAIN cache)

\* the call has failed with the factory's error, the cache holding the entry of an
\* earlier call and nothing else
C19_Witness ==
    /\ facade.pc = "raised"
    /\ facade.raised_by = "_get_strategy"
    /\ facade.method = "get_document_status"
    /\ req[facade.caller].provider_code = "docusign"
    /\ DOMAIN cache = {key_of(WarmArgs)}
    /\ retry.calls = 0

(***************************************************************************)
(* Properties of the status mapping (specification SpecCalc).              *)
(***************************************************************************)
\* C20 (total mapping): for every provider status that reaches it, a null status
\* of a provider response included, to_internal_status returns a member of the
\* internal status enum, 'pending' for a value outside its table; and the
\* derivation of a refresh, which ends in this mapping, returns a member of the
\* enum as well.
C20_MappingTotal ==
    /\ to_internal_status(calc.provider_status) \in STATUS_CHOICES
    /\ calc.provider_status \notin {"pending", "signed", "cancelled", "rejected", "expired",
                                    "SIGNED", "Cancelled"}
           => to_internal_status(calc.provider_status) = "pending"
    /\ calc.phase = "done" => calc.result \in STATUS_CHOICES

(***************************************************************************)
(* Properties of the background analysis (specification SpecAnalysis).     *)
(***************************************************************************)
\* C21 (analysis failure is isolated): once create_document or
\* send_draft_to_signature has saved the document and started the analysis, the
\* document and signers stay exactly as saved whatever the analysis thread does
\* (a failure at any step included), and the caller's return is never blocked: it
\* can take place at every point of the thread's run.
C21_AnalysisIsolated ==
    analysis.caller \in {"return", "returned"} =>
        /\ doc.created
        /\ doc = analysis.persisted
        /\ analysis.caller = "return" => ENABLED AnalysisReturn

\* the analysis has failed and the promotion of a draft with two signers has
\* returned the document as saved
C21_Witness ==
    /\ analysis.thread = "logged"
    /\ analysis.caller = "returned"
    /\ analysis.op = "send_draft_to_signature"
    /\ ~analysis.row
    /\ Len(doc.signers) = 2
    /\ doc.token = "tok"
    /\ doc = analysis.persisted

(***************************************************************************)
(* Properties of concurrent deliveries (specification SpecWebhookWorkers). *)
(***************************************************************************)
\* C22 (concurrent signer_signed): when the signer_signed deliveries of all signers
\* are handled by concurrent workers, then once every worker has finished,
\* internal_status is 'signed'.
C22_ConcurrentSignerSigned ==
    (\A w \in Workers : wk[w].pc = "done") => doc.internal_status = "signed"

(***************************************************************************)
(* Further scenarios of the document lifecycle (specification Spec).       *)
(***************************************************************************)
\* a doc_created delivery carrying the provider's status of the document
DocCreatedPayload(status) ==
    [token |-> "tok", event |-> "doc_created", status |-> status, signer |-> NoToken,
     unauthenticated_signer |-> NoToken, email |-> Absent]
DocCreated(d, status) == webhook_handler(d, "zapsign", DocCreatedPayload(status)).doc

\* C23 (doc_created): a doc_created webhook for a stored document sets
\* provider_status to the payload's status and internal_status to the value derived
\* from that provider status and the current signers.
C23_DocCreatedRecomputes ==
    Stored =>
        \A status \in {"pending", "signed", "cancelled", "rejected", "expired"} :
            \A after \in {DocCreated(doc, status)} :
                /\ after.provider_status = status
                /\ after.internal_status = _calculate_internal_status(doc.signers, status)

\* a signer_authentication_failed delivery: the signer's token under
\* unauthenticated_signer, or under signer
AuthFailedPayload(field, t) ==
    [token |-> "tok", event |-> "signer_authentication_failed",
     signer |-> IF field = "signer" THEN t ELSE NoToken,
     unauthenticated_signer |-> IF field = "unauthenticated_signer" THEN t ELSE NoToken,
     email |-> Absent]
AuthFailed(d, field, t) == webhook_handler(d, "zapsign", AuthFailedPayload(field, t)).doc

\* C24 (authentication failure): a signer_authentication_failed webhook sets the
\* signer with the payload's signer token to 'rejected', whether the token is under
\* unauthenticated_signer or under signer; a token that matches no signer changes
\* nothing.
C24_AuthFailedAlias ==
    Stored =>
        \A field \in {"unauthenticated_signer", "signer"}, t \in 1..(MaxSigners + 1) :
            \A after \in {AuthFailed(doc, field, t)} :
                IF by_token(doc.signers, t) = {}
                THEN after = doc
                ELSE \A i \in by_token(doc.signers, t) : after.signers[i].status = "rejected"

\* C25 (promotion in place): a successful send_draft_to_signature keeps the document
\* and its signer rows (none created, none deleted, every e-mail as before), and
\* each signer that has an entry in the provider's response carries that entry's
\* token and mapped status; a signer without an entry is as it was.
C25_PromotionInPlace ==
    (doc.created /\ doc.internal_status = "draft") =>
        \A out \in CreateOutcomes :
            \A r \in {send_draft_to_signature(doc, out)} :
                r.result = "saved" =>
                    /\ r.doc.created
                    /\ Len(r.doc.signers) = Len(doc.signers)
                    /\ \A i \in 1..Len(doc.signers) :
                           /\ r.doc.signers[i].email = doc.signers[i].email
                           /\ IF i <= Len(out.signers)
                              THEN /\ r.doc.signers[i].token = out.signers[i].token
                                   /\ r.doc.signers[i].status
                                          = SignerTable(out.signers[i].status)
                              ELSE r.doc.signers[i] = doc.signers[i]

\* a draft with two signers whose promotion returns two entries
C25_Witness ==
    /\ doc.created
    /\ doc.internal_status = "draft"
    /\ Len(doc.signers) = 2
    /\ \E out \in CreateOutcomes :
           /\ Len(out.signers) = 2
           /\ out.signers[1].status = "link-opened"
           /\ send_draft_to_signature(doc, out).result = "saved"
           /\ send_draft_to_signature(doc, out).doc.token = "tok"
           /\ Len(send_draft_to_signature(doc, out).doc.signers) = 2
           /\ send_draft_to_signature(doc, out).doc.signers[1].status = "in_progress"
           /\ send_draft_to_signature(doc, out).doc.signers[2].token = out.signers[2].token

(***************************************************************************)
(* Properties of concurrent promotions (specification SpecPromoters).      *)
(***************************************************************************)
\* C26 (promotion at most once): across the send_draft_to_signature calls for one
\* draft, sequential or concurrent, the provider's create_document succeeds at most
\* once.
C26_PromoteAtMostOnce == promo.created <= 1

(***************************************************************************)
(* Further properties of the document lifecycle (specification Spec).      *)
(***************************************************************************)
\* the refresh responses whose signer entries all carry a token of the document and
\* no status, the document itself not being reported as signed
StatuslessOutcomes(d) ==
    {out \in StatusOutcomes(d) :
        /\ out.kind = "response"
        /\ out.status = "pending"
        /\ out.signers # <<>>
        /\ \A k \in 1..Len(out.signers) :
               /\ out.signers[k].status = Absent
               /\ by_token(d.signers, out.signers[k].token) # {}}

\* C27 (entry without status): during a refresh, a signer entry with a token and no
\* status leaves the status of the matching signer exactly as it was, whatever it
\* was.
C27_StatuslessEntryKeepsStatus ==
    Stored =>
        \A out \in StatuslessOutcomes(doc) :
            Statuses(update_document_status(doc, out).doc) = Statuses(doc)

(***************************************************************************)
(* Further properties of the retry loop (specification SpecRetry).         *)
(***************************************************************************)
\* C28 (the operation is always invoked): for every retry policy, max_retries of 0
\* or below included, a finished _retry_operation has invoked the operation at
\* least once and ends with the result or the exception of its last invocation.
C28_OperationInvoked ==
    retry.pc \in {"returned", "raised"} =>
        /\ retry.calls >= 1
        /\ retry.outcome = (IF retry.pc = "returned" THEN "result" ELSE "exception")
        /\ retry.of_call = retry.calls

(***************************************************************************)
(* Properties of the factory under clear_cache (specification              *)
(* SpecFactoryClear).                                                      *)
(***************************************************************************)
\* C29 (get_provider under clear_cache): a get_provider call with a valid provider
\* code never fails, whatever clear_cache and get_provider calls run concurrently;
\* when it has finished it has returned a strategy instance.
C29_GetProviderNeverFails ==
    \A t \in Callers :
        known_provider(req[t].provider_code) =>
            /\ pc[t] # "raised"
            /\ pc[t] = "done" => ret[t] # NoInstance

(***************************************************************************)
(* Further properties of the factory (specification SpecFactory).          *)
(***************************************************************************)
\* C30 (injective cache key): two get_provider calls whose (provider_code,
\* api_token, base_url) triples differ have different cache keys and never return
\* the same strategy instance.
C30_KeyInjective ==
    \A t, u \in Callers :
        (pc[t] # "idle" /\ pc[u] # "idle" /\ req[t] # req[u]) =>
            /\ key_of(req[t]) # key_of(req[u])
            /\ (pc[t] = "done" /\ pc[u] = "done") => ret[t] # ret[u]

====
